---- MODULE Spec2Model ----
(***************************************************************************)
(* A model of macup's archive engine (package backup): scanning a location *)
(* into an index, writing the index into an archive, and extracting an     *)
(* archive back onto the filesystem; of create, which makes the backup     *)
(* directory; of the clear command; and of ArchiveWriter.Close.            *)
(*                                                                         *)
(* Paths.  A cleaned absolute path is the sequence of its components       *)
(* (<<>> is "/").  Where the code compares path STRINGS (the traversal     *)
(* check of extractArchive) the model compares PathString(p): the path     *)
(* spelled as a sequence of tokens, a token being a separator or a name.   *)
(*                                                                         *)
(* Filesystem.  fs maps every existing path to its node                    *)
(* [type, mode, data, target]; symbolic links are resolved as the kernel   *)
(* resolves them (Resolve).  The process is an unprivileged owner of every  *)
(* node: the owner permission bits are enforced.                           *)
(***************************************************************************)
EXTENDS Integers, Sequences, FiniteSets, TLC

\* ------------------------------------------------------------------ bounds
MaxLocs == 2
MaxHeaders == 3
MaxFaults == 1
\* Symbolic links followed in one path resolution before ELOOP.
MaxSymlinks == 2

\* ------------------------------------------------------------------- paths
Sep == "/"
DotDot == ".."

Dir(p) == IF p = <<>> THEN <<>> ELSE SubSeq(p, 1, Len(p) - 1)

Base(p) == IF p = <<>> THEN Sep ELSE p[Len(p)]

\* filepath.Clean of a rooted path: "." dropped, ".." removes the component
\* before it, ".." at the root dropped.
RECURSIVE CleanRooted(_, _)
CleanRooted(acc, rest) ==
  IF rest = <<>> THEN acc
  ELSE LET c == Head(rest) IN
       IF c = "." THEN CleanRooted(acc, Tail(rest))
       ELSE IF c = DotDot THEN CleanRooted(Dir(acc), Tail(rest))
       ELSE CleanRooted(Append(acc, c), Tail(rest))

\* filepath.Join(dir, name) for an absolute dir: the elements joined by the
\* separator, then cleaned.
Join(dir, name) == CleanRooted(<<>>, dir \o name)

\* The path as the string the code sees.
RECURSIVE PathString(_)
PathString(p) ==
  IF p = <<>> THEN <<Sep>>
  ELSE IF Len(p) = 1 THEN <<Sep, p[1]>>
  ELSE PathString(Dir(p)) \o <<Sep, Base(p)>>

\* strings.HasPrefix
HasPrefix(s, prefix) ==
  /\ Len(prefix) <= Len(s)
  /\ SubSeq(s, 1, Len(prefix)) = prefix

\* p is q or lies below q (component-wise).
IsUnder(p, q) == Len(q) <= Len(p) /\ SubSeq(p, 1, Len(q)) = q

\* filepath.Rel(base, target) for target at or below base.
Rel(base, target) == SubSeq(target, Len(base) + 1, Len(target))

\* Directory listings are sorted by name.
NameOrder == <<"a", "b", "e", "o", "p", "q", "t", "u">>

NameRank(n) == CHOOSE i \in 1..Len(NameOrder) : NameOrder[i] = n

\* ------------------------------------------------------------- permissions
OwnerR(m) == (m \div 256) % 2 = 1
OwnerW(m) == (m \div 128) % 2 = 1
OwnerX(m) == (m \div 64) % 2 = 1

\* perm &^ umask over the nine permission bits.
RECURSIVE AndNot(_, _, _)
AndNot(m, u, bits) ==
  IF bits = 0 THEN 0
  ELSE (IF m % 2 = 1 /\ u % 2 = 0 THEN 1 ELSE 0)
       + 2 * AndNot(m \div 2, u \div 2, bits - 1)

ApplyUmask(perm, umask) == AndNot(perm, umask, 9)

\* -------------------------------------------------------------- filesystem
NoTarget == [abs |-> FALSE, comps |-> <<>>]
NoData == <<>>

DirNode(mode) == [type |-> "dir", mode |-> mode, data |-> NoData, target |-> NoTarget]
FileNode(mode, data) == [type |-> "file", mode |-> mode, data |-> data, target |-> NoTarget]
LinkNode(target) == [type |-> "link", mode |-> 511, data |-> NoData, target |-> target]

Exists(f, p) == p \in DOMAIN f

\* Kernel path resolution from directory cur over the remaining components.
\* followLast: whether a symbolic link in the last position is followed.
\* st = "ok": path is the node found.  st = "ENOENT": every directory on
\* the way exists and path, the place of the last component, does not.
RECURSIVE Walk(_, _, _, _, _)
Walk(f, cur, rest, followLast, fuel) ==
  IF rest = <<>> THEN [st |-> "ok", path |-> cur]
  ELSE LET c == Head(rest)
           more == Tail(rest)
           nxt == Append(cur, c)
       IN
       IF c = "." THEN Walk(f, cur, more, followLast, fuel)
       ELSE IF c = DotDot THEN Walk(f, Dir(cur), more, followLast, fuel)
       ELSE IF ~OwnerX(f[cur].mode) THEN [st |-> "EACCES", path |-> cur]
       ELSE IF ~Exists(f, nxt)
         THEN IF more = <<>> THEN [st |-> "ENOENT", path |-> nxt]
              ELSE [st |-> "ENOTFOUND", path |-> nxt]
       ELSE IF f[nxt].type = "link"
         THEN IF more = <<>> /\ ~followLast THEN [st |-> "ok", path |-> nxt]
              ELSE IF fuel = 0 THEN [st |-> "ELOOP", path |-> nxt]
              ELSE Walk(f, IF f[nxt].target.abs THEN <<>> ELSE cur,
                        f[nxt].target.comps \o more, followLast, fuel - 1)
       ELSE IF f[nxt].type = "dir" THEN Walk(f, nxt, more, followLast, fuel)
       ELSE IF more = <<>> THEN [st |-> "ok", path |-> nxt]
       ELSE [st |-> "ENOTDIR", path |-> nxt]

Resolve(f, p, followLast) == Walk(f, <<>>, p, followLast, MaxSymlinks)

\* os.Stat and os.Lstat: the node, or an error.
Stat(f, p) ==
  LET r == Resolve(f, p, TRUE) IN
  IF r.st = "ok" THEN [err |-> "nil", node |-> f[r.path], real |-> r.path]
  ELSE [err |-> r.st, node |-> DirNode(0), real |-> r.path]

Lstat(f, p) ==
  LET r == Resolve(f, p, FALSE) IN
  IF r.st = "ok" THEN [err |-> "nil", node |-> f[r.path], real |-> r.path]
  ELSE [err |-> r.st, node |-> DirNode(0), real |-> r.path]

\* A node can be made in directory d by this process.
CanCreateIn(f, d) == OwnerW(f[d].mode) /\ OwnerX(f[d].mode)

\* The result of a call that may change the filesystem: the error, the
\* filesystem after it, and the real paths it created or wrote.
Outcome(err, f, touched) == [err |-> err, fs |-> f, touched |-> touched]

Put(f, p, node) == [q \in DOMAIN f \cup {p} |-> IF q = p THEN node ELSE f[q]]

\* os.Mkdir: the last component is not followed; an existing one is EEXIST.
Mkdir(f, p, perm, umask) ==
  LET r == Resolve(f, p, FALSE) IN
  IF r.st = "ok" THEN Outcome("EEXIST", f, {})
  ELSE IF r.st # "ENOENT" THEN Outcome(r.st, f, {})
  ELSE IF ~CanCreateIn(f, Dir(r.path)) THEN Outcome("EACCES", f, {})
  ELSE Outcome("nil", Put(f, r.path, DirNode(ApplyUmask(perm, umask))), {r.path})

\* os.MkdirAll
RECURSIVE MkdirAll(_, _, _, _)
MkdirAll(f, p, perm, umask) ==
  LET s == Stat(f, p) IN
  IF s.err = "nil"
    THEN IF s.node.type = "dir" THEN Outcome("nil", f, {})
         ELSE Outcome("ENOTDIR", f, {})
  ELSE LET up == IF Len(p) > 1 THEN MkdirAll(f, Dir(p), perm, umask)
                 ELSE Outcome("nil", f, {})
       IN
       IF up.err # "nil" THEN up
       ELSE LET m == Mkdir(up.fs, p, perm, umask) IN
            IF m.err = "nil" THEN Outcome("nil", m.fs, up.touched \cup m.touched)
            ELSE LET l == Lstat(up.fs, p) IN
                 IF l.err = "nil" /\ l.node.type = "dir"
                   THEN Outcome("nil", up.fs, up.touched)
                 ELSE Outcome(m.err, up.fs, up.touched)

\* os.OpenFile(p, O_CREATE|O_WRONLY|O_TRUNC, perm) followed by writing data:
\* symbolic links are followed, the last one too; an existing file is
\* truncated and keeps its mode; a missing one is created with perm &^ umask.
CreateTruncWrite(f, p, perm, umask, data) ==
  LET r == Resolve(f, p, TRUE) IN
  IF r.st = "ok"
    THEN IF f[r.path].type = "dir" THEN Outcome("EISDIR", f, {})
         ELSE IF ~OwnerW(f[r.path].mode) THEN Outcome("EACCES", f, {})
         ELSE Outcome("nil", Put(f, r.path, FileNode(f[r.path].mode, data)), {r.path})
  ELSE IF r.st # "ENOENT" THEN Outcome(r.st, f, {})
  ELSE IF ~CanCreateIn(f, Dir(r.path)) THEN Outcome("EACCES", f, {})
  ELSE Outcome("nil", Put(f, r.path, FileNode(ApplyUmask(perm, umask), data)), {r.path})

\* os.Symlink(target, p)
Symlink(f, target, p) ==
  LET r == Resolve(f, p, FALSE) IN
  IF r.st = "ok" THEN Outcome("EEXIST", f, {})
  ELSE IF r.st # "ENOENT" THEN Outcome(r.st, f, {})
  ELSE IF ~CanCreateIn(f, Dir(r.path)) THEN Outcome("EACCES", f, {})
  ELSE Outcome("nil", Put(f, r.path, LinkNode(target)), {r.path})

\* os.ReadDir: the names in a directory, sorted.
ChildNames(f, d) == {Base(q) : q \in {x \in DOMAIN f : x # <<>> /\ Dir(x) = d}}

RECURSIVE SortNames(_)
SortNames(S) ==
  IF S = {} THEN <<>>
  ELSE LET n == CHOOSE x \in S : \A y \in S : NameRank(x) <= NameRank(y)
       IN <<n>> \o SortNames(S \ {n})

ReadDir(f, d) ==
  IF ~OwnerR(f[d].mode) THEN [err |-> "EACCES", names |-> <<>>]
  ELSE [err |-> "nil", names |-> SortNames(ChildNames(f, d))]

\* --------------------------------------------------------- configuration
\* A path as authored in the configuration: "~/x/y" (kind "home"), "/x/y"
\* (kind "abs") or "x/y" (kind "rel").  The record stands for the string.
HomePath(comps) == [kind |-> "home", comps |-> comps]
AbsPath(comps) == [kind |-> "abs", comps |-> comps]
RelPath(comps) == [kind |-> "rel", comps |-> comps]

\* normalizePath: "~/" is replaced by the home directory, then the path is
\* made absolute (joined to the working directory unless already absolute).
normalizePath(path, e) ==
  IF path.kind = "home" THEN Join(e.home, path.comps)
  ELSE IF path.kind = "abs" THEN CleanRooted(<<>>, path.comps)
  ELSE Join(e.cwd, path.comps)

\* filepath.Base of the authored string.
AuthoredBase(path) ==
  IF path.comps # <<>> THEN path.comps[Len(path.comps)]
  ELSE IF path.kind = "abs" THEN Sep
  ELSE IF path.kind = "home" THEN "~"
  ELSE "."

\* generateFilename: "<base>-<sha256 of the string>.tar.gz".  The digest is
\* modelled as injective: sum is the hashed string itself.
generateFilename(path) == [base |-> AuthoredBase(path), sum |-> path]

\* The authored string of a path.
RECURSIVE JoinNames(_)
JoinNames(comps) ==
  IF comps = <<>> THEN ""
  ELSE IF Len(comps) = 1 THEN comps[1]
  ELSE comps[1] \o Sep \o JoinNames(Tail(comps))

AuthoredString(path) ==
  (IF path.kind = "home" THEN "~/" ELSE IF path.kind = "abs" THEN Sep ELSE "")
  \o JoinNames(path.comps)

\* The archive's file name as a directory entry of the backup directory.
ArchiveFile(name) == name.base \o "-" \o AuthoredString(name.sum) \o ".tar.gz"

\* filepath.Join(outputDir, filename), filepath.Join(backupDir, archiveName)
ArchivePath(dir, name) == Join(dir, <<ArchiveFile(name)>>)

\* filepath.Join(outputDir, "config.yaml")
ConfigCopyPath(dir) == Join(dir, <<"config.yaml">>)

\* The bytes of the configuration document, and of an archive file: the
\* document they decode to is config, the archive's entries are in archives.
ConfigBytes == <<7>>
ArchiveBytes == <<9>>

\* -------------------------------------------------------------------- scan
\* Size reported by lstat: the bytes of a file, the length of a link's
\* target string.
TargetString(t) == IF t.abs THEN PathString(t.comps) ELSE
                   IF t.comps = <<>> THEN <<>> ELSE Tail(PathString(t.comps))

LstatSize(node) ==
  IF node.type = "link" THEN Len(TargetString(node.target)) ELSE Len(node.data)

ScanState(index, size, err) == [index |-> index, totalSize |-> size, err |-> err]

\* (mutant) an ignored directory is left out but still descended into.
ScanVisitNoSkipDir(root, ignore, gone, p, node, acc) ==
  IF p = root \/ Base(p) \in ignore THEN [ret |-> "nil", acc |-> acc]
  ELSE [ret |-> "nil",
        acc |-> [acc EXCEPT !.index = Append(@, p),
                            !.totalSize = IF node.type # "dir" /\ p \notin gone
                                            THEN @ + LstatSize(node) ELSE @]]

\* (mutant) the root is not skipped: it is indexed as any entry.
ScanVisitWithRoot(root, ignore, gone, p, node, acc) ==
  IF p # root /\ Base(p) \in ignore
    THEN [ret |-> IF node.type = "dir" THEN "SkipDir" ELSE "nil", acc |-> acc]
  ELSE [ret |-> "nil",
        acc |-> ScanState(Append(acc.index, p),
                          IF node.type # "dir" /\ p \notin gone
                            THEN acc.totalSize + LstatSize(node)
                            ELSE acc.totalSize,
                          acc.err)]

\* The WalkDir callback of Location.scan for an entry met without error.
\* gone: the entries that vanish after being listed (their Info fails).
ScanVisit(root, ignore, gone, p, node, acc) ==
  IF p = root THEN [ret |-> "nil", acc |-> acc]
  ELSE IF Base(p) \in ignore
    THEN [ret |-> IF node.type = "dir" THEN "SkipDir" ELSE "nil", acc |-> acc]
  ELSE [ret |-> "nil",
        acc |-> ScanState(Append(acc.index, p),
                          IF node.type # "dir" /\ p \notin gone
                            THEN acc.totalSize + LstatSize(node)
                            ELSE acc.totalSize,
                          acc.err)]

\* filepath.walkDir: the callback on the entry, then its children in name
\* order; a ReadDir error is handed to the callback, which returns it.
RECURSIVE walkDir(_, _, _, _, _, _)
RECURSIVE walkNames(_, _, _, _, _, _, _)
walkDir(f, root, ignore, gone, p, acc) ==
  LET v == ScanVisit(root, ignore, gone, p, f[p], acc) IN
  IF v.ret = "SkipDir" \/ f[p].type # "dir" THEN v.acc
  ELSE LET rd == IF p \in gone THEN [err |-> "ENOENT", names |-> <<>>]
                 ELSE ReadDir(f, p)
       IN
       IF rd.err # "nil" THEN ScanState(v.acc.index, v.acc.totalSize, rd.err)
       ELSE walkNames(f, root, ignore, gone, p, rd.names, v.acc)

walkNames(f, root, ignore, gone, d, names, acc) ==
  IF names = <<>> \/ acc.err # "nil" THEN acc
  ELSE walkNames(f, root, ignore, gone, d, Tail(names),
                 walkDir(f, root, ignore, gone, Append(d, Head(names)), acc))

\* Location.scan: filepath.WalkDir from the location's path.
scan(f, root, ignore, gone) ==
  LET l == Lstat(f, root) IN
  IF l.err # "nil" THEN ScanState(<<>>, 0, l.err)
  ELSE walkDir(f, root, ignore, gone, root, ScanState(<<>>, 0, "nil"))

\* ----------------------------------------------------------------- archive
Header(name, typeflag, mode, size, linkname, data) ==
  [Name |-> name, Typeflag |-> typeflag, Mode |-> mode, Size |-> size,
   Linkname |-> linkname, Data |-> data]

\* tar.FileInfoHeader(info, ""): the type and the permission bits of the
\* node os.Stat found.
FileInfoHeader(node) ==
  IF node.type = "dir" THEN Header(<<>>, "dir", node.mode, 0, NoTarget, <<>>)
  ELSE IF node.type = "link"
    THEN Header(<<>>, "symlink", node.mode, 0, NoTarget, <<>>)
  ELSE Header(<<>>, "reg", node.mode, Len(node.data), NoTarget, <<>>)

\* The name of an entry: the location's base name, then the relative path.
EntryName(root, p) ==
  IF root = <<>> THEN Rel(root, p) ELSE <<Base(root)>> \o Rel(root, p)

\* Location.writeEntryNoMessage: os.Stat follows symbolic links; the
\* payload is read through os.Open, which follows them too.
writeEntryNoMessage(f, root, p) ==
  LET s == Stat(f, p) IN
  IF s.err # "nil" THEN [err |-> s.err, hdr |-> <<>>]
  ELSE LET h == [FileInfoHeader(s.node) EXCEPT !.Name = EntryName(root, p)] IN
       IF s.node.type = "dir" THEN [err |-> "nil", hdr |-> <<h>>]
       ELSE IF ~OwnerR(s.node.mode) THEN [err |-> "EACCES", hdr |-> <<h>>]
       ELSE [err |-> "nil", hdr |-> <<[h EXCEPT !.Data = s.node.data]>>]

\* ------------------------------------------------------------- extraction
\* (mutant) the prefix compared is the separator alone: no path is refused.
IllegalFilePathLax(cleanPath, cleanParent) ==
  /\ ~HasPrefix(PathString(cleanPath), <<Sep>>)
  /\ cleanPath # cleanParent

\* The security check of extractArchive on the cleaned strings.
IllegalFilePath(cleanPath, cleanParent) ==
  /\ ~HasPrefix(PathString(cleanPath), PathString(cleanParent) \o <<Sep>>)
  /\ cleanPath # cleanParent

\* The permission extractArchive creates missing parent directories with.
ParentDirPerm == 493

\* extractFile: the file is created or truncated, then the payload copied;
\* a payload shorter than the header's size ends the copy with an error.
extractFile(f, p, mode, umask, h) ==
  LET o == CreateTruncWrite(f, p, mode, umask, h.Data) IN
  IF o.err = "nil" /\ Len(h.Data) < h.Size
    THEN Outcome("ErrUnexpectedEOF", o.fs, o.touched)
  ELSE o

\* (mutant) a default case that refuses the header.
RejectHeader(f) == Outcome("unsupported header type", f, {})

\* The switch on header.Typeflag has no case for the other types and no
\* default: nothing is done.
SkipHeader(f) == Outcome("nil", f, {})

\* One iteration of extractArchive's loop on header h.
ExtractEntry(f, umask, parentDir, h) ==
  LET extractPath == Join(parentDir, h.Name)
      cleanPath == CleanRooted(<<>>, extractPath)
      cleanParent == CleanRooted(<<>>, parentDir)
  IN
  IF IllegalFilePath(cleanPath, cleanParent)
    THEN Outcome("illegal file path in archive", f, {})
  ELSE IF h.Typeflag = "dir"
    THEN LET m == MkdirAll(f, extractPath, h.Mode, umask) IN
         IF m.err # "nil" THEN Outcome("failed to create directory", m.fs, m.touched)
         ELSE m
  ELSE IF h.Typeflag = "reg"
    THEN LET m == MkdirAll(f, Dir(extractPath), ParentDirPerm, umask) IN
         IF m.err # "nil"
           THEN Outcome("failed to create parent directory", m.fs, m.touched)
         ELSE LET x == extractFile(m.fs, extractPath, h.Mode, umask, h) IN
              Outcome(IF x.err # "nil" THEN "failed to extract file" ELSE "nil",
                      x.fs, m.touched \cup x.touched)
  ELSE IF h.Typeflag = "symlink"
    THEN LET m == MkdirAll(f, Dir(extractPath), ParentDirPerm, umask) IN
         IF m.err # "nil"
           THEN Outcome("failed to create parent directory", m.fs, m.touched)
         ELSE LET x == Symlink(m.fs, h.Linkname, extractPath) IN
              Outcome(IF x.err # "nil" THEN "failed to create symlink" ELSE "nil",
                      x.fs, m.touched \cup x.touched)
  ELSE SkipHeader(f)

\* ----------------------------------------------------------- progress view
Fraction(n, d) == <<n, d>>
Zero == Fraction(0, 1)
One == Fraction(1, 1)
AtLeastOne(x) == x[1] >= x[2]

ProgressItem(progress, done) == [Progress |-> progress, Done |-> done]

\* ProgressView.Add
pvAdd(view, location) ==
  [q \in DOMAIN view \cup {location} |->
     IF q = location THEN ProgressItem(Zero, FALSE) ELSE view[q]]

\* ProgressView.Set: progress 1.0 marks the item done.
pvSet(view, location, progress) ==
  [q \in DOMAIN view \cup {location} |->
     IF q # location THEN view[q]
     ELSE IF AtLeastOne(progress) THEN ProgressItem(One, TRUE)
     ELSE ProgressItem(progress,
                       IF location \in DOMAIN view THEN view[location].Done
                       ELSE FALSE)]

\* ProgressView.Done
pvDone(view, location, done) ==
  [q \in DOMAIN view |->
     IF q # location THEN view[q]
     ELSE ProgressItem(IF done THEN One ELSE view[q].Progress, done)]

\* ------------------------------------------------------------------- state
VARIABLES
  fs,            \* the filesystem
  env,           \* [home, cwd, umask] of the running process
  config,        \* config.Data.Locations: [Path, Ignore] in config order
  archives,      \* the backup directory: archive file name -> [hdrs, damaged]
  pc,            \* where BackupData / Restore stands
  li,            \* the position of the loop over the locations
  cur,           \* the location at hand: [path, archive]
  index,         \* Location.index
  totalSize,     \* Location.totalSize
  wi,            \* position of writeToArchive's loop in the index
  bytesWritten,  \* writeToArchive's bytesWritten
  pv,            \* the progress view's items
  hpos,          \* position of extractArchive's loop in the archive
  backupResult,  \* what BackupData returned ("running" before)
  restoreResult, \* what Restore returned ("running" before)
  faults,        \* I/O faults the environment may still inject
  opts,          \* the command line: [output, configPath], and clear's yes
  stdin,         \* the characters standard input holds
  clearResult,   \* how the clear command ended ("running" before)
  hist           \* history: what the run did, for the properties

vars == <<fs, env, config, archives, pc, li, cur, index, totalSize, wi,
          bytesWritten, pv, hpos, backupResult, restoreResult, faults, opts,
          stdin, clearResult, hist>>

NoArchives == [n \in {} |-> 0]
NoItems == [n \in {} |-> 0]
NoCur == [path |-> <<>>, archive |-> generateFilename(AbsPath(<<>>))]

Archive(hdrs, damaged) == [hdrs |-> hdrs, damaged |-> damaged]

PutArchive(as, name, a) == [n \in DOMAIN as \cup {name} |-> IF n = name THEN a ELSE as[n]]

NoFiles == [n \in {} |-> 0]

\* What the run did.  scans: per scanned location [li, root, gone, err].
\* opened: per os.Create of an archive [li, name].  closes: per finished
\* location [li, name, errs, archive].  lookups: per restored location
\* [li, name, found].  touched: real paths extraction created or wrote.
\* extracted: per header taken from an archive [li, pos].  source: the
\* filesystem BackupData started on.  fresh: Restore ran on a fresh machine.
\* removed: the paths clear called os.RemoveAll on that lost an entry.
\* sets: per call of pv.Set by writeToArchive [li, location, progress].
\* runs: how often Restore was run again.  first: the filesystem the first
\* run of Restore left.
NoHist == [scans |-> <<>>, opened |-> <<>>, closes |-> <<>>, lookups |-> <<>>,
           touched |-> {}, extracted |-> <<>>, source |-> NoFiles,
           fresh |-> FALSE, removed |-> {}, sets |-> <<>>, runs |-> 0,
           first |-> NoFiles]

\* The paths at or below p.
Subtree(f, p) == {q \in DOMAIN f : IsUnder(q, p)}

Remove(f, gone) ==
  [q \in DOMAIN f \ UNION {Subtree(f, g) : g \in gone} |-> f[q]]

Options(output, configPath) == [output |-> output, configPath |-> configPath]

\* ------------------------------------------------------------------ create
\* The permission Create makes the output directory with, and the one
\* os.Create makes files with.
OutputDirPerm == 493
CreatePerm == 438

\* copyConfigToBackup: the source opened, the destination created or
\* truncated, then the source's bytes, as they are after that, copied.
copyConfigToBackup(f, configPath, outputDir, umask) ==
  LET src == Stat(f, configPath) IN
  IF src.err # "nil" \/ ~OwnerR(src.node.mode)
    THEN Outcome("failed to open config file", f, {})
  ELSE LET dst == CreateTruncWrite(f, ConfigCopyPath(outputDir), CreatePerm,
                                   umask, <<>>)
       IN
       IF dst.err # "nil" THEN Outcome("failed to create config copy", f, {})
       ELSE IF src.node.type = "dir"
         THEN Outcome("failed to copy config", dst.fs, dst.touched)
       ELSE LET real == CHOOSE q \in dst.touched : TRUE
                data == dst.fs[src.real].data
            IN Outcome("nil", Put(dst.fs, real, FileNode(dst.fs[real].mode, data)),
                       dst.touched)

\* Create, lines 9-20: the output directory, the copy of the configuration;
\* BackupData follows.
Create ==
  /\ pc = "idle"
  /\ \E m \in {MkdirAll(fs, opts.output, OutputDirPerm, env.umask)} :
     \E c \in {copyConfigToBackup(m.fs, opts.configPath, opts.output, env.umask)} :
     IF m.err # "nil"
       THEN /\ fs' = m.fs
            /\ backupResult' = "failed to create output directory"
            /\ pc' = "b_done"
     ELSE IF c.err # "nil"
       THEN /\ fs' = c.fs
            /\ backupResult' = c.err
            /\ pc' = "b_done"
     ELSE /\ fs' = c.fs
          /\ backupResult' = backupResult
          /\ pc' = "b_start"
  /\ hist' = [hist EXCEPT !.source = fs]
  /\ UNCHANGED <<env, config, opts, stdin, clearResult, archives, li, cur, index, totalSize, wi,
                 bytesWritten, pv, hpos, restoreResult, faults>>

\* ------------------------------------------------------------------ backup
\* BackupData, lines 152-163: one progress item per location.
RECURSIVE AddAll(_, _, _)
AddAll(view, locs, e) ==
  IF locs = <<>> THEN view
  ELSE AddAll(pvAdd(view, normalizePath(Head(locs).Path, e)), Tail(locs), e)

BackupData ==
  /\ pc = "b_start"
  /\ pv' = AddAll(NoItems, config, env)
  /\ li' = 1
  /\ pc' = IF config = <<>> THEN "b_done" ELSE "b_loc"
  /\ backupResult' = IF config = <<>> THEN "nil" ELSE "running"
  /\ UNCHANGED <<fs, env, config, opts, stdin, clearResult, archives, cur, index, totalSize, wi,
                 bytesWritten, hpos, restoreResult, faults, hist>>

\* The entries that may vanish while the location is scanned.
GoneChoices(f, root, budget) ==
  {{}} \cup (IF budget > 0
               THEN {{p} : p \in {q \in DOMAIN f : q # root /\ IsUnder(q, root)}}
               ELSE {})

\* (mutant) the archive is named after the normalized path.
backupArchiveNameNormalized(l, e) ==
  generateFilename(AbsPath(normalizePath(l.Path, e)))

\* backupLocation, line 184: the archive's name, from the path as authored.
backupArchiveName(l, e) == generateFilename(l.Path)

\* backupLocation, lines 181-197: the archive's name from the path as
\* authored, the path normalized, the location scanned.
ScanLocation ==
  /\ pc = "b_loc"
  /\ \E filename \in {backupArchiveName(config[li], env)},
        path \in {normalizePath(config[li].Path, env)} :
        \E gone \in GoneChoices(fs, path, faults) :
          \E sc \in {scan(fs, path, config[li].Ignore, gone)} :
          /\ fs' = Remove(fs, gone)
          /\ faults' = faults - Cardinality(gone)
          /\ cur' = [path |-> path, archive |-> filename]
          /\ index' = sc.index
          /\ totalSize' = sc.totalSize
          /\ hist' = [hist EXCEPT !.scans =
                        Append(@, [li |-> li, root |-> path, gone |-> gone,
                                   err |-> sc.err])]
          /\ IF sc.err # "nil"
               THEN /\ backupResult' = "scan failed"
                    /\ pc' = "b_done"
               ELSE /\ backupResult' = backupResult
                    /\ pc' = "b_create"
  /\ UNCHANGED <<env, config, opts, stdin, clearResult, archives, li, wi, bytesWritten, pv, hpos,
                 restoreResult>>

\* newArchiveWriter: os.Create makes the file or truncates the one there.
newArchiveWriter(as, name) == PutArchive(as, name, Archive(<<>>, FALSE))

\* backupLocation, lines 199-205.  The archive's file is created in the
\* output directory; the call fails as os.Create fails, or on an I/O fault.
CreateArchive ==
  /\ pc = "b_create"
  /\ \E x \in {CreateTruncWrite(fs, ArchivePath(opts.output, cur.archive),
                                 CreatePerm, env.umask, ArchiveBytes)} :
     \/ /\ x.err = "nil"
        /\ fs' = x.fs
        /\ archives' = newArchiveWriter(archives, cur.archive)
        /\ hist' = [hist EXCEPT !.opened =
                      Append(@, [li |-> li, name |-> cur.archive])]
        /\ wi' = 1
        /\ bytesWritten' = 0
        /\ pc' = "b_write"
        /\ UNCHANGED <<backupResult, faults>>
     \/ /\ x.err # "nil" \/ faults > 0
        /\ faults' = IF x.err # "nil" THEN faults ELSE faults - 1
        /\ backupResult' = "failed to create archive"
        /\ pc' = "b_done"
        /\ UNCHANGED <<fs, archives, hist, wi, bytesWritten>>
  /\ UNCHANGED <<env, config, opts, stdin, clearResult, li, cur, index, totalSize, pv, hpos,
                 restoreResult>>

\* (mutant) the quotient without the cap at 1.0.
ProgressUncapped(written, total, i, n) ==
  IF total > 0 THEN Fraction(written, total) ELSE Fraction(i, n)

\* The progress writeToArchive computes after entry number i (from 1).
Progress(written, total, i, n) ==
  IF total > 0
    THEN IF written > total THEN One ELSE Fraction(written, total)
  ELSE Fraction(i, n)

AppendHeaders(a, hdrs, damaged) == Archive(a.hdrs \o hdrs, a.damaged \/ damaged)

\* One iteration of writeToArchive's loop, lines 269-311.  An error ends
\* backupLocation: the deferred Close runs and its error is dropped.
WriteEntry ==
  /\ pc = "b_write"
  /\ wi <= Len(index)
  /\ \E w \in {writeEntryNoMessage(fs, cur.path, index[wi])},
        st \in {Stat(fs, index[wi])} :
     \E written \in {IF st.err = "nil" /\ st.node.type # "dir"
                       THEN bytesWritten + Len(st.node.data)
                       ELSE bytesWritten} :
     \E progress \in {Progress(written, totalSize, wi, Len(index))} :
     \/ /\ w.err = "nil"
        /\ archives' = [archives EXCEPT ![cur.archive] =
                          AppendHeaders(@, w.hdr, FALSE)]
        /\ bytesWritten' = written
        /\ pv' = pvSet(pv, cur.path, progress)
        /\ hist' = [hist EXCEPT !.sets =
                      Append(@, [li |-> li, location |-> cur.path,
                                 progress |-> progress])]
        /\ wi' = wi + 1
        /\ UNCHANGED <<pc, backupResult, faults>>
     \/ /\ w.err # "nil"
        /\ archives' = [archives EXCEPT ![cur.archive] =
                          AppendHeaders(@, w.hdr,
                            w.hdr # <<>> /\ Len(w.hdr[1].Data) < w.hdr[1].Size)]
        /\ backupResult' = "write failed"
        /\ pc' = "b_done"
        /\ UNCHANGED <<bytesWritten, pv, wi, faults, hist>>
     \/ /\ faults > 0
        /\ faults' = faults - 1
        /\ archives' = [archives EXCEPT ![cur.archive] =
                          AppendHeaders(@, <<>>, TRUE)]
        /\ backupResult' = "write failed"
        /\ pc' = "b_done"
        /\ UNCHANGED <<bytesWritten, pv, wi, hist>>
  /\ UNCHANGED <<fs, env, config, opts, stdin, clearResult, li, cur, index,
                 totalSize, hpos, restoreResult>>

\* ArchiveWriter.Close: the three layers closed, the errors joined.
CloseLayers == {"tar", "gzip", "file"}

CloseChoices(budget) ==
  {{}} \cup (IF budget > 0 THEN SUBSET CloseLayers \ {{}} ELSE {})

\* What backupLocation returns once writeToArchive has succeeded: the
\* deferred Close's error is not part of it.
backupLocationReturn(closeErrs) == "nil"

\* writeToArchive's end (line 314), backupLocation's end (lines 212-216, the
\* deferred Close included), and BackupData's next iteration or return.
FinishLocation ==
  /\ pc = "b_write"
  /\ wi > Len(index)
  /\ \E errs \in CloseChoices(faults) :
       \E damaged \in (IF errs = {} THEN {FALSE} ELSE BOOLEAN) :
         LET a == AppendHeaders(archives[cur.archive], <<>>, damaged)
             ret == backupLocationReturn(errs)
         IN
         /\ archives' = [archives EXCEPT ![cur.archive] = a]
         /\ faults' = IF errs = {} THEN faults ELSE faults - 1
         /\ pv' = pvDone(pvSet(pv, cur.path, One), cur.path, TRUE)
         /\ hist' = [hist EXCEPT !.closes =
                       Append(@, [li |-> li, name |-> cur.archive,
                                  errs |-> errs, archive |-> a]),
                                 !.sets =
                       Append(@, [li |-> li, location |-> cur.path,
                                  progress |-> One])]
         /\ IF ret # "nil"
              THEN /\ backupResult' = ret
                   /\ pc' = "b_done"
                   /\ li' = li
            ELSE IF li = Len(config)
              THEN /\ backupResult' = "nil"
                   /\ pc' = "b_done"
                   /\ li' = li
            ELSE /\ backupResult' = backupResult
                 /\ pc' = "b_loc"
                 /\ li' = li + 1
  /\ UNCHANGED <<fs, env, config, opts, stdin, clearResult, cur, index, totalSize, wi, bytesWritten,
                 hpos, restoreResult>>

\* ----------------------------------------------------------------- restore
\* The machine a backup is restored on.
Skeleton ==
  [q \in {<<>>, <<"p">>, <<"q">>, <<"o">>} |-> DirNode(493)]

Homes == {<<"p">>, <<"q">>}
Umasks == {0, 18}

RestoreEnvs ==
  {[home |-> h, cwd |-> c, umask |-> u] : h \in Homes, c \in Homes, u \in Umasks}

\* Restore is started on a backup directory: on the machine the backup was
\* made on, or on a fresh one.
\* A fresh machine the backup directory was carried to.
Carried(f, dir) ==
  LET kept == {q \in DOMAIN f : IsUnder(q, dir) \/ IsUnder(dir, q)} IN
  [q \in DOMAIN Skeleton \cup kept |-> IF q \in kept THEN f[q] ELSE Skeleton[q]]

\* LoadConfig on the copy in the backup directory: the locations it holds.
LoadConfig(f, path, locations) ==
  LET s == Stat(f, path) IN
  IF s.err # "nil" \/ s.node.type = "dir" \/ ~OwnerR(s.node.mode)
    THEN [err |-> "failed to load config from backup", locations |-> <<>>]
  ELSE IF s.node.data = ConfigBytes THEN [err |-> "nil", locations |-> locations]
  ELSE IF s.node.data = <<>> THEN [err |-> "nil", locations |-> <<>>]
  ELSE [err |-> "failed to load config from backup", locations |-> <<>>]

StartRestore ==
  /\ pc = "b_done"
  /\ \E e \in RestoreEnvs, fresh \in BOOLEAN :
       \E f \in {IF fresh THEN Carried(fs, opts.output) ELSE fs} :
       \E c \in {LoadConfig(f, ConfigCopyPath(opts.output), config)} :
       /\ env' = e
       /\ fs' = f
       /\ hist' = [hist EXCEPT !.fresh = fresh]
       /\ pc' = IF c.err = "nil" /\ c.locations # <<>> THEN "r_loc" ELSE "r_done"
       /\ restoreResult' = IF c.err # "nil" THEN c.err
                           ELSE IF c.locations = <<>> THEN "nil"
                           ELSE "running"
  /\ li' = 1
  /\ UNCHANGED <<config, opts, stdin, clearResult, archives, cur, index, totalSize, wi, bytesWritten,
                 pv, hpos, backupResult, faults>>

\* (mutant) os.IsPermission in the place of os.IsNotExist.
IsPermission(err) == err = "EACCES"

\* os.IsNotExist(err) for the error of os.Stat.
IsNotExist(err) == err \in {"ENOENT", "ENOTFOUND"}

\* extractArchive, lines 43-57: the archive opened and its gzip header read.
openArchive(f, as, dir, name) ==
  LET s == Stat(f, ArchivePath(dir, name)) IN
  IF s.err # "nil" \/ ~OwnerR(s.node.mode) THEN "failed to open archive"
  ELSE IF s.node.type = "dir" \/ s.node.data # ArchiveBytes
          \/ name \notin DOMAIN as
    THEN "failed to create gzip reader"
  ELSE "nil"

\* restoreLocation, lines 15-30, and extractArchive up to its loop.
RestoreLocation ==
  /\ pc = "r_loc"
  /\ \E archiveName \in {generateFilename(config[li].Path)},
        targetPath \in {normalizePath(config[li].Path, env)} :
     \E found \in {~IsNotExist(Stat(fs, ArchivePath(opts.output, archiveName)).err)},
        opened \in {openArchive(fs, archives, opts.output, archiveName)} :
     /\ cur' = [path |-> targetPath, archive |-> archiveName]
     /\ hist' = [hist EXCEPT !.lookups =
                   Append(@, [li |-> li, name |-> archiveName, found |-> found])]
     /\ IF ~found
          THEN /\ pc' = "r_done"
               /\ hpos' = hpos
               /\ restoreResult' = "archive not found"
        ELSE IF opened # "nil"
          THEN /\ pc' = "r_done"
               /\ hpos' = hpos
               /\ restoreResult' = opened
        ELSE /\ pc' = "r_extract"
             /\ hpos' = 1
             /\ restoreResult' = restoreResult
  /\ UNCHANGED <<fs, env, config, opts, stdin, clearResult, archives, li, index, totalSize, wi,
                 bytesWritten, pv, backupResult, faults>>

\* One iteration of extractArchive's loop, lines 63-114, on a header.
\* When the entry written is the archive's own file, the open reader goes on
\* with what it has buffered ("buffered"), finds the stream cut at the next
\* header ("cut"), or fails while copying the payload ("payload").
ReaderChoices(o, archiveReal) ==
  IF o.err = "nil" /\ archiveReal \in o.touched
    THEN {"buffered", "cut", "payload"}
  ELSE {"buffered"}

ExtractHeader ==
  /\ pc = "r_extract"
  /\ hpos <= Len(archives[cur.archive].hdrs)
  /\ \E o \in {ExtractEntry(fs, env.umask, Dir(cur.path),
                               archives[cur.archive].hdrs[hpos])},
        real \in {Stat(fs, ArchivePath(opts.output, cur.archive)).real} :
     \E reader \in ReaderChoices(o, real) :
       /\ fs' = IF reader = "payload"
                  THEN Put(o.fs, real, FileNode(o.fs[real].mode, <<>>))
                ELSE o.fs
       /\ archives' = IF reader = "cut"
                        THEN [archives EXCEPT ![cur.archive] =
                                Archive(SubSeq(@.hdrs, 1, hpos), TRUE)]
                      ELSE archives
       /\ hist' = [hist EXCEPT !.touched = @ \cup o.touched,
                               !.extracted = Append(@, [li |-> li, pos |-> hpos])]
       /\ IF o.err = "nil" /\ reader # "payload"
            THEN /\ hpos' = hpos + 1
                 /\ UNCHANGED <<pc, restoreResult>>
            ELSE /\ restoreResult' = IF o.err = "nil" THEN "failed to extract file"
                                     ELSE o.err
                 /\ pc' = "r_done"
                 /\ hpos' = hpos
  /\ UNCHANGED <<env, config, opts, stdin, clearResult, li, cur, index, totalSize, wi,
                 bytesWritten, pv, backupResult, faults>>

\* (mutant) any error of tarReader.Next ends the loop as io.EOF does.
ExtractEndAnyError ==
  /\ pc = "r_extract"
  /\ hpos > Len(archives[cur.archive].hdrs)
  /\ IF li = Len(config)
       THEN /\ restoreResult' = "nil"
            /\ pc' = "r_done"
            /\ li' = li
     ELSE /\ restoreResult' = restoreResult
          /\ pc' = "r_loc"
          /\ li' = li + 1
  /\ UNCHANGED <<fs, env, config, opts, stdin, clearResult, archives, cur,
                 index, totalSize, wi, bytesWritten, pv, hpos, backupResult,
                 faults, hist>>

\* The end of the archive's stream, lines 64-70: io.EOF ends the location,
\* any other error ends Restore.
ExtractEnd ==
  /\ pc = "r_extract"
  /\ hpos > Len(archives[cur.archive].hdrs)
  /\ IF archives[cur.archive].damaged
       THEN /\ restoreResult' = "failed to read tar header"
            /\ pc' = "r_done"
            /\ li' = li
     ELSE IF li = Len(config)
       THEN /\ restoreResult' = "nil"
            /\ pc' = "r_done"
            /\ li' = li
     ELSE /\ restoreResult' = restoreResult
          /\ pc' = "r_loc"
          /\ li' = li + 1
  /\ UNCHANGED <<fs, env, config, opts, stdin, clearResult, archives, cur, index, totalSize, wi,
                 bytesWritten, pv, hpos, backupResult, faults, hist>>

\* ------------------------------------------------------------------ inputs
\* The location's tree on the machine backed up: entries a, b and a/b
\* below /p/t.
NoNode == [type |-> "none", mode |-> 0, data |-> NoData, target |-> NoTarget]

LinkTargets == {[abs |-> FALSE, comps |-> <<"b">>], [abs |-> TRUE, comps |-> <<"o">>]}

NodeChoices ==
  {FileNode(420, <<1>>), FileNode(436, <<1, 2>>), FileNode(292, <<>>),
   FileNode(128, <<1>>), DirNode(493), DirNode(365), DirNode(192)}
  \cup {LinkNode(t) : t \in LinkTargets}

Trees ==
  {t \in [{"a", "b", "ab"} -> NodeChoices \cup {NoNode}] :
     t["ab"].type # "none" => t["a"].type = "dir"}

LocRoot == <<"p", "t">>

TreeFS(t) ==
  LET slots == {<<"a", <<"p", "t", "a">>>>, <<"b", <<"p", "t", "b">>>>,
                <<"ab", <<"p", "t", "a", "b">>>>}
      present == {s \in slots : t[s[1]].type # "none"}
  IN [q \in DOMAIN Skeleton \cup {LocRoot} \cup {s[2] : s \in present} |->
        IF q \in DOMAIN Skeleton THEN Skeleton[q]
        ELSE IF q = LocRoot THEN DirNode(493)
        ELSE t[(CHOOSE s \in present : s[2] = q)[1]]]

SampleTrees ==
  {[a |-> DirNode(493), ab |-> FileNode(420, <<1>>), b |-> FileNode(436, <<1, 2>>)],
   [a |-> NoNode, ab |-> NoNode, b |-> NoNode]}

AuthoredPaths ==
  {HomePath(<<"t">>), RelPath(<<"t">>), AbsPath(<<"p", "t">>), AbsPath(<<"p", "u">>)}

TreeIgnores == {{}, {"a"}, {"b"}, {"a", "t"}}
ConfigIgnores == {{}, {"a"}}

Location(path, ignore) == [Path |-> path, Ignore |-> ignore]

RECURSIVE SeqsUpTo(_, _)
SeqsUpTo(S, n) ==
  IF n = 0 THEN {<<>>}
  ELSE LET shorter == SeqsUpTo(S, n - 1) IN
       shorter \cup {Append(s, x) : s \in {y \in shorter : Len(y) = n - 1}, x \in S}

Configs ==
  SeqsUpTo({Location(p, i) : p \in AuthoredPaths, i \in ConfigIgnores}, MaxLocs)
  \ {<<>>}

BackupEnvs == {[home |-> h, cwd |-> h, umask |-> 18] : h \in Homes}

\* The command line of create: the output directory is new, exists, lies
\* two levels below an existing directory or below a file; the
\* configuration file is elsewhere, is the copy's own path, or is missing.
ConfigFile == FileNode(420, ConfigBytes)
DefaultOptions == Options(<<"o", "k">>, <<"o", "c">>)

Outputs == {<<"o", "k">>, <<"o">>, <<"o", "k", "k">>, <<"o", "c", "k">>}
ConfigPaths == {<<"o", "c">>, <<"o", "config.yaml">>, <<"o", "x">>}

CreateOptions == {Options(o, c) : o \in Outputs, c \in ConfigPaths}

\* The machine backed up: the tree, and the configuration file where the
\* command line says (at /o/c when the command line names a missing file).
Machine(t, o) ==
  Put(TreeFS(t), IF o.configPath = <<"o", "x">> THEN <<"o", "c">> ELSE o.configPath,
      ConfigFile)

InitCommon ==
  /\ archives = NoArchives
  /\ pc = "idle"
  /\ li = 1
  /\ cur = NoCur
  /\ index = <<>>
  /\ totalSize = 0
  /\ wi = 1
  /\ bytesWritten = 0
  /\ pv = NoItems
  /\ hpos = 1
  /\ backupResult = "running"
  /\ restoreResult = "running"
  /\ stdin = <<>>
  /\ clearResult = "running"
  /\ hist = NoHist

\* Every tree under one location, every configuration over sample trees,
\* or every command line over sample trees and single locations.
Init ==
  /\ InitCommon
  /\ \/ /\ \E t \in Trees : fs = Machine(t, DefaultOptions)
        /\ \E i \in TreeIgnores : config = <<Location(AbsPath(LocRoot), i)>>
        /\ env = [home |-> <<"p">>, cwd |-> <<"p">>, umask |-> 18]
        /\ faults = 0
        /\ opts = DefaultOptions
     \/ /\ \E t \in SampleTrees : fs = Machine(t, DefaultOptions)
        /\ config \in Configs
        /\ env \in BackupEnvs
        /\ faults \in 0..MaxFaults
        /\ opts = DefaultOptions
     \/ /\ opts \in CreateOptions
        /\ \E t \in SampleTrees : fs = Machine(t, opts)
        /\ \E l \in AuthoredPaths : config = <<Location(l, {})>>
        /\ env = [home |-> <<"p">>, cwd |-> <<"p">>, umask |-> 18]
        /\ faults = 0

Next ==
  \/ Create
  \/ BackupData
  \/ ScanLocation
  \/ CreateArchive
  \/ WriteEntry
  \/ FinishLocation
  \/ StartRestore
  \/ RestoreLocation
  \/ ExtractHeader
  \/ ExtractEnd

Spec == Init /\ [][Next]_vars

\* ------------------------------------------------- extraction of any archive
\* Headers an archive handed to Restore may hold: directories, files and
\* links below the location, names with "..", a name that is the parent
\* directory itself, an entry of another type.
OutsideAbs == [abs |-> TRUE, comps |-> <<"o">>]
OutsideRel == [abs |-> FALSE, comps |-> <<DotDot, DotDot, "o">>]

ExtractHeaders(target, output) ==
  {Header(<<"t", "a">>, "dir", 493, 0, NoTarget, <<>>),
   Header(<<"t", "a">>, "reg", 420, 1, NoTarget, <<1>>),
   Header(<<"t", "a", "e">>, "reg", 436, 1, NoTarget, <<2>>),
   Header(<<"t", "a">>, "symlink", 511, 0, OutsideAbs, <<>>),
   Header(<<"t", "a">>, "symlink", 511, 0, OutsideRel, <<>>),
   Header(<<DotDot, "o", "e">>, "reg", 420, 1, NoTarget, <<1>>),
   Header(<<"t", DotDot, DotDot>>, "dir", 493, 0, NoTarget, <<>>),
   Header(<<"t", "a", DotDot, "b">>, "reg", 292, 0, NoTarget, <<>>),
   Header(<<>>, "dir", 493, 0, NoTarget, <<>>),
   Header(<<"t", "b">>, "other", 420, 0, NoTarget, <<>>),
   Header(<<DotDot, "o">>, "other", 420, 0, NoTarget, <<>>),
   Header(<<"t", "k", ArchiveFile(generateFilename(target))>>, "reg", 420, 1,
          NoTarget, <<1>>)}

ExtractTargets == {AbsPath(<<"p", "t">>), AbsPath(<<"t">>)}

\* The backup directory lies outside every restored location, or inside
\* the location /p/t.
ExtractOutputs == {<<"o", "k">>, <<"p", "t", "k">>}

\* The machine restored on: the backup directory with the archive in it.
BackupDirFS(output, name) ==
  Put(MkdirAll(Skeleton, output, OutputDirPerm, 0).fs,
      ArchivePath(output, name), FileNode(420, ArchiveBytes))

InitExtract ==
  /\ \E target \in ExtractTargets, output \in ExtractOutputs :
       \E hdrs \in SeqsUpTo(ExtractHeaders(target, output), MaxHeaders),
          damaged \in BOOLEAN :
         /\ config = <<Location(target, {})>>
         /\ archives = PutArchive(NoArchives, generateFilename(target),
                                  Archive(hdrs, damaged))
         /\ opts = Options(output, <<"o", "c">>)
         /\ fs = BackupDirFS(output, generateFilename(target))
  /\ \E u \in Umasks : env = [home |-> <<"p">>, cwd |-> <<"p">>, umask |-> u]
  /\ pc = "r_loc"
  /\ li = 1
  /\ cur = NoCur
  /\ index = <<>>
  /\ totalSize = 0
  /\ wi = 1
  /\ bytesWritten = 0
  /\ pv = NoItems
  /\ hpos = 1
  /\ backupResult = "nil"
  /\ restoreResult = "running"
  /\ faults = 0
  /\ stdin = <<>>
  /\ clearResult = "running"
  /\ hist = NoHist

NextExtract ==
  \/ RestoreLocation
  \/ ExtractHeader
  \/ ExtractEnd

SpecExtract == InitExtract /\ [][NextExtract]_vars

\* Restore is run a second time on the same backup directory, after a first
\* run that returned no error.
MaxRuns == 1

RestoreAgain ==
  /\ pc = "r_done"
  /\ restoreResult = "nil"
  /\ hist.runs < MaxRuns
  /\ pc' = "r_loc"
  /\ li' = 1
  /\ restoreResult' = "running"
  /\ hist' = [hist EXCEPT !.runs = @ + 1, !.first = fs]
  /\ UNCHANGED <<fs, env, config, opts, stdin, clearResult, archives, cur,
                 index, totalSize, wi, bytesWritten, pv, hpos, backupResult,
                 faults>>

NextExtractTwice ==
  \/ NextExtract
  \/ RestoreAgain

SpecExtractTwice == InitExtract /\ [][NextExtractTwice]_vars

\* ------------------------------------------------------------------ claims
\* The header extractArchive is about to take, when there is one.
AtHeader == pc = "r_extract" /\ hpos <= Len(archives[cur.archive].hdrs)
NextHeader == archives[cur.archive].hdrs[hpos]

\* The header's name, joined to the parent directory and cleaned, is
\* neither the parent directory nor a string starting with it and a
\* separator.
NameEscapes(h) ==
  LET parent == PathString(Dir(cur.path))
      joined == PathString(Join(Dir(cur.path), h.Name))
  IN joined # parent /\ ~HasPrefix(joined, parent \o <<Sep>>)

\* C1: a header whose cleaned join(parentDir, Name) is neither the cleaned
\* parentDir nor prefixed by it and a separator makes extractArchive return
\* the 'illegal file path' error with no filesystem operation for that
\* header; no later header is processed, and what earlier headers
\* extracted stays as it is.
C1_TraversalAborts ==
  /\ [][(AtHeader /\ NameEscapes(NextHeader)) =>
          /\ restoreResult' = "illegal file path in archive"
          /\ pc' = "r_done"
          /\ fs' = fs
          /\ hist'.touched = hist.touched]_vars
  /\ [][pc = "r_done" =>
          /\ pc' = "r_done"
          /\ fs' = fs
          /\ hist'.extracted = hist.extracted]_vars

\* C1 witness: the error after two earlier headers were extracted.
C1_Witness ==
  /\ restoreResult = "illegal file path in archive"
  /\ Len(hist.extracted) = 3
  /\ hist.touched # {}
  /\ NameEscapes(NextHeader)

\* The archive at hand holds a header whose name resolves outside the
\* parent directory.
ArchiveEscapes ==
  \E i \in 1..Len(archives[cur.archive].hdrs) :
    NameEscapes(archives[cur.archive].hdrs[i])

\* C2: while and after extractArchive runs on an archive holding a header
\* whose name resolves outside the target's parent directory, nothing whose
\* real location (symbolic links followed) lies outside that directory has
\* been created or modified.
C2_NothingOutsideParent ==
  (pc \in {"r_extract", "r_done"} /\ ArchiveEscapes) =>
    \A p \in hist.touched : IsUnder(p, Dir(cur.path))

\* The entries of the backed-up location that no ignore rule excludes:
\* below the root, no component from the root down in the Ignore list.
SourceEntries(root, ignore) ==
  {p \in DOMAIN hist.source :
     /\ p # root
     /\ IsUnder(p, root)
     /\ \A k \in (Len(root) + 1)..Len(p) : p[k] \notin ignore}

\* A single location was backed up without error, without an entry
\* vanishing and with the archive closed cleanly, then restored on a fresh
\* machine with no umask; every directory backed up was readable and
\* writable by its owner; Restore is over.
RoundTripDone ==
  /\ pc = "r_done"
  /\ Len(config) = 1
  /\ backupResult = "nil"
  /\ hist.scans[1].gone = {}
  /\ hist.closes[1].errs = {}
  /\ hist.fresh
  /\ env.umask = 0
  /\ \A p \in DOMAIN hist.source :
       hist.source[p].type = "dir" =>
         OwnerR(hist.source[p].mode) /\ OwnerW(hist.source[p].mode)

\* C3: backup of a tree then restore into an empty target gives every
\* non-ignored entry back at the same relative path with the same type,
\* mode, link target and content.
C3_RoundTrip ==
  RoundTripDone =>
    /\ restoreResult = "nil"
    /\ \A p \in SourceEntries(hist.scans[1].root, config[1].Ignore) :
         LET q == cur.path \o Rel(hist.scans[1].root, p) IN
         /\ q \in DOMAIN fs
         /\ fs[q] = hist.source[p]

\* The location scanned last: its entry in the configuration, its root.
Scanned == hist.scans # <<>>
LastScan == hist.scans[Len(hist.scans)]
ScannedIgnore == config[LastScan.li].Ignore

\* The directories p descends from: its proper non-empty prefixes.
Ancestors(p) == {SubSeq(p, 1, k) : k \in 1..(Len(p) - 1)}

\* The path an archive entry was written from.
EntrySource(root, h) == root \o Tail(h.Name)

\* The archives written from an index, each with the Ignore list and the
\* root of its location: those closed, and the one being written.
WrittenArchives ==
  {[hdrs |-> hist.closes[k].archive.hdrs,
    ignore |-> config[hist.closes[k].li].Ignore,
    root |-> hist.scans[hist.closes[k].li].root] : k \in 1..Len(hist.closes)}
  \cup (IF pc = "b_write"
          THEN {[hdrs |-> archives[cur.archive].hdrs,
                 ignore |-> config[li].Ignore, root |-> cur.path]}
          ELSE {})

\* C4 as claimed: no path of the index has a base name in the Ignore list
\* or descends from a directory whose base name is in it, and no archive
\* entry is written from such a path.
C4_IgnoredNeverIndexed ==
  Scanned =>
    /\ \A i \in 1..Len(index) :
         /\ Base(index[i]) \notin ScannedIgnore
         /\ \A d \in Ancestors(index[i]) : Base(d) \notin ScannedIgnore
    /\ \A a \in WrittenArchives : \A i \in 1..Len(a.hdrs) :
         LET p == EntrySource(a.root, a.hdrs[i]) IN
         /\ Base(p) \notin a.ignore
         /\ \A d \in Ancestors(p) : Base(d) \notin a.ignore

\* C4 amended: the directories meant are those below the location's root;
\* the root itself and the directories above it are never matched.
C4_IgnoredBelowRoot ==
  Scanned =>
    /\ \A i \in 1..Len(index) :
         /\ Base(index[i]) \notin ScannedIgnore
         /\ \A d \in Ancestors(index[i]) :
              Len(d) > Len(LastScan.root) => Base(d) \notin ScannedIgnore
    /\ \A a \in WrittenArchives : \A i \in 1..Len(a.hdrs) :
         LET p == EntrySource(a.root, a.hdrs[i]) IN
         /\ Base(p) \notin a.ignore
         /\ \A d \in Ancestors(p) :
              Len(d) > Len(a.root) => Base(d) \notin a.ignore

\* C4 witness: an archive was closed for a location in which an ignored
\* directory holds an entry, and the index is not empty.
C4_Witness ==
  /\ hist.closes # <<>>
  /\ index # <<>>
  /\ \E p \in DOMAIN hist.source :
       /\ Len(p) = Len(LastScan.root) + 2
       /\ IsUnder(p, LastScan.root)
       /\ hist.source[Dir(p)].type = "dir"
       /\ Base(Dir(p)) \in ScannedIgnore

WrittenForAnother ==
  {k \in 1..Len(hist.closes) :
     hist.closes[k].name = cur.archive /\ hist.closes[k].li # li}

\* C6: when the name computed for a location is the name of an archive
\* already written for another entry in the same run, opening the writer
\* fails and the earlier archive stays as it was.
C6_CollisionFails ==
  [][(pc = "b_create" /\ WrittenForAnother # {}) =>
       /\ backupResult' = "failed to create archive"
       /\ pc' = "b_done"
       /\ archives' = archives]_vars

\* A single location whose scan gave an empty index and whose archive was
\* closed without error, restored on a machine without the location.
EmptyLocationRestored ==
  /\ Len(config) = 1
  /\ pc = "r_done"
  /\ hist.scans # <<>>
  /\ hist.scans[1].err = "nil"
  /\ index = <<>>
  /\ hist.closes # <<>>
  /\ hist.closes[1].errs = {}
  /\ hist.fresh

\* C7: an empty index gives a successful backup with an archive of zero
\* entries, and restoring it returns no error and leaves the location's
\* target directory existing and empty.
C7_EmptyLocation ==
  EmptyLocationRestored =>
    /\ backupResult = "nil"
    /\ hist.closes[1].archive.hdrs = <<>>
    /\ restoreResult = "nil"
    /\ cur.path \in DOMAIN fs
    /\ fs[cur.path].type = "dir"
    /\ ChildNames(fs, cur.path) = {}

\* C8: when closing the archive fails after every entry was written, the
\* run ends with an error and the location is not shown as done.
C8_CloseErrorSurfaces ==
  \A k \in 1..Len(hist.closes) :
    hist.closes[k].errs # {} =>
      /\ backupResult \notin {"running", "nil"}
      /\ ~pv[hist.scans[hist.closes[k].li].root].Done

Failed(result) == result \notin {"running", "nil"}

\* C9: locations are taken in the configuration's order; once one fails
\* nothing more is scanned, opened, written or extracted, and the archives
\* completed for earlier locations are as they were closed.
C9_FailFast ==
  /\ [](\A k \in 1..Len(hist.scans) : hist.scans[k].li = k)
  /\ [](\A k \in 1..Len(hist.lookups) : hist.lookups[k].li = k)
  /\ [][Failed(backupResult) =>
          /\ hist'.scans = hist.scans
          /\ hist'.opened = hist.opened
          /\ archives' = archives]_vars
  /\ [][Failed(restoreResult) =>
          /\ hist'.lookups = hist.lookups
          /\ hist'.extracted = hist.extracted
          /\ fs' = fs]_vars
  /\ [](Failed(backupResult) =>
          \A k \in 1..Len(hist.closes) :
            hist.closes[k].li < Len(hist.scans) =>
              archives[hist.closes[k].name] = hist.closes[k].archive)

\* The entries of a scan that vanished after being listed and that the
\* walk reached: no component below the root is ignored.
VanishedReached(k) ==
  {p \in hist.scans[k].gone :
     \A c \in (Len(hist.scans[k].root) + 1)..Len(p) :
       p[c] \notin config[hist.scans[k].li].Ignore}

\* C10: when an entry the walk reached can no longer be examined, scan
\* returns an error and no archive is created for the location.
C10_ScanFailsOnVanished ==
  \A k \in 1..Len(hist.scans) :
    VanishedReached(k) # {} =>
      /\ hist.scans[k].err # "nil"
      /\ \A o \in 1..Len(hist.opened) : hist.opened[o].li # hist.scans[k].li

\* Create has returned without error and Restore has not started.
CreateReturnedNil == pc = "b_done" /\ backupResult = "nil"

\* The archive files in the output directory.
ArchiveFilesIn(f, dir) ==
  {p \in DOMAIN f : /\ p # dir
                    /\ Dir(p) = dir
                    /\ f[p].type = "file"
                    /\ f[p].data = ArchiveBytes}

\* C11: after Create returns without error, the output directory holds a
\* file config.yaml with the bytes of the configuration file passed to
\* Create, and as many distinct archive files as configured locations.
C11_BackupDirectoryComplete ==
  CreateReturnedNil =>
    LET copy == Stat(fs, ConfigCopyPath(opts.output))
        passed == Stat(hist.source, opts.configPath)
    IN /\ copy.err = "nil"
       /\ copy.node.type = "file"
       /\ copy.node.data = passed.node.data
       /\ Cardinality(ArchiveFilesIn(fs, Stat(fs, opts.output).real)) = Len(config)

\* The archive file restoreLocation computes for location number k.
LocationArchivePath(k) ==
  ArchivePath(opts.output, generateFilename(config[k].Path))

\* C12: Restore / extractArchive never changes the bytes of an archive file
\* of the backup directory, whatever the archive holds and wherever the
\* backup directory lies, inside a restored location included.
C12_ArchiveBytesKept ==
  \A k \in 1..Len(config) :
    /\ LocationArchivePath(k) \in DOMAIN fs
    /\ fs[LocationArchivePath(k)].type = "file"
    /\ fs[LocationArchivePath(k)].data = ArchiveBytes

\* restoreLocation is about to run for a location whose archive file is
\* not in the backup directory.
ArchiveMissing == pc = "r_loc" /\ ~Exists(fs, LocationArchivePath(li))

RemoveAll(f, p) ==
  LET r == Resolve(f, p, FALSE) IN
  IF IsNotExist(r.st) THEN Outcome("nil", f, {})
  ELSE IF r.st # "ok" THEN Outcome(r.st, f, {})
  ELSE LET sub == Subtree(f, r.path)
           CanUnlink(q) ==
             /\ q # <<>>
             /\ CanCreateIn(f, Dir(q))
             /\ (q = r.path \/ OwnerR(f[Dir(q)].mode))
           kept == {q \in sub : \E s \in sub : IsUnder(s, q) /\ ~CanUnlink(s)}
       IN Outcome(IF kept = {} THEN "nil" ELSE "EACCES",
                  [q \in DOMAIN f \ (sub \ kept) |-> f[q]], sub \ kept)

\* The length of the cleaned absolute path as a string.
RECURSIVE StringLen(_)
StringLen(p) ==
  IF p = <<>> THEN 1
  ELSE IF Len(p) = 1 THEN 1 + Len(p[1])
  ELSE StringLen(Dir(p)) + 1 + Len(Base(p))

\* The shortest path ClearSingleLocation accepts.
MinClearLen == 10

\* ClearSingleLocation.  homeDir is what os.UserHomeDir returns, compared
\* as a string with the normalized path.
ClearSingleLocation(f, path, e) ==
  LET normalizedPath == normalizePath(path, e) IN
  IF IsNotExist(Stat(f, normalizedPath).err)
    THEN Outcome("path does not exist", f, {})
  ELSE IF normalizedPath = <<>> \/ normalizedPath = e.home
    THEN Outcome("refusing to delete protected directory", f, {})
  ELSE IF StringLen(normalizedPath) < MinClearLen
    THEN Outcome("path too short, refusing to delete", f, {})
  ELSE RemoveAll(f, normalizedPath)

\* Standard input is a sequence of characters.
WhiteSpace == {" ", "\t", "\n", "\r"}
DeleteWord == <<"D", "E", "L", "E", "T", "E">>

\* bufio.Reader.ReadString(delim): the text up to the first delimiter, the
\* delimiter included; without one, what is left and io.EOF.
ReadString(in, delim) ==
  LET hits == {i \in 1..Len(in) : in[i] = delim} IN
  IF hits = {} THEN [line |-> in, rest |-> <<>>, err |-> "EOF"]
  ELSE LET n == CHOOSE i \in hits : \A j \in hits : i <= j IN
       [line |-> SubSeq(in, 1, n), rest |-> SubSeq(in, n + 1, Len(in)),
        err |-> "nil"]

\* strings.TrimSpace
RECURSIVE TrimLeft(_)
TrimLeft(s) ==
  IF s # <<>> /\ Head(s) \in WhiteSpace THEN TrimLeft(Tail(s)) ELSE s

RECURSIVE TrimRight(_)
TrimRight(s) ==
  IF s # <<>> /\ s[Len(s)] \in WhiteSpace
    THEN TrimRight(SubSeq(s, 1, Len(s) - 1))
  ELSE s

TrimSpace(s) == TrimRight(TrimLeft(s))

\* (mutant) the line is compared whether or not the read failed.
confirmDeletionIgnoringError(in) ==
  LET r == ReadString(in, "\n") IN
  [confirmed |-> TrimSpace(r.line) = DeleteWord, err |-> "nil", rest |-> r.rest]

\* confirmDeletion
confirmDeletion(in) ==
  LET r == ReadString(in, "\n") IN
  IF r.err # "nil" THEN [confirmed |-> FALSE, err |-> r.err, rest |-> r.rest]
  ELSE [confirmed |-> TrimSpace(r.line) = DeleteWord, err |-> "nil",
        rest |-> r.rest]

\* The flags of clear: config, and yes as cobra holds it.
YesFlag(changed, value) == [Changed |-> changed, Value |-> value]
ClearOptions(configPath, yes) == [configPath |-> configPath, yes |-> yes]

\* clearCmd.Run, line 31
skipConfirmation(o) == o.yes.Changed /\ o.yes.Value = "true"

\* clearCmd.Run, lines 29-66: the configuration loaded, the confirmation
\* asked for unless skipped; ClearLocations follows.
ClearRun ==
  /\ pc = "c_start"
  /\ \E c \in {LoadConfig(fs, opts.configPath, config)},
        ask \in {confirmDeletion(stdin)} :
       IF c.err # "nil"
         THEN /\ clearResult' = "exit 1"
              /\ pc' = "c_done"
              /\ UNCHANGED <<stdin, config>>
       ELSE IF ~skipConfirmation(opts) /\ ask.err # "nil"
         THEN /\ clearResult' = "exit 1"
              /\ pc' = "c_done"
              /\ stdin' = ask.rest
              /\ config' = c.locations
       ELSE IF ~skipConfirmation(opts) /\ ~ask.confirmed
         THEN /\ clearResult' = "exit 0"
              /\ pc' = "c_done"
              /\ stdin' = ask.rest
              /\ config' = c.locations
       ELSE /\ clearResult' = IF c.locations = <<>> THEN "ok" ELSE clearResult
            /\ pc' = IF c.locations = <<>> THEN "c_done" ELSE "c_clear"
            /\ stdin' = IF skipConfirmation(opts) THEN stdin ELSE ask.rest
            /\ config' = c.locations
  /\ li' = 1
  /\ hist' = [hist EXCEPT !.source = fs]
  /\ UNCHANGED <<fs, env, opts, archives, cur, index, totalSize, wi,
                 bytesWritten, pv, hpos, backupResult, restoreResult, faults>>

\* One iteration of ClearLocations' loop, lines 13-36, and its return.
ClearLocation ==
  /\ pc = "c_clear"
  /\ \E path \in {normalizePath(config[li].Path, env)} :
     \E gone \in {IsNotExist(Stat(fs, path).err)},
        x \in {RemoveAll(fs, path)} :
       /\ fs' = IF gone THEN fs ELSE x.fs
       /\ hist' = IF gone \/ x.touched = {} THEN hist
                  ELSE [hist EXCEPT !.removed = @ \cup {path}]
       /\ IF ~gone /\ x.err # "nil"
            THEN /\ clearResult' = "exit 1"
                 /\ pc' = "c_done"
                 /\ li' = li
          ELSE IF li = Len(config)
            THEN /\ clearResult' = "ok"
                 /\ pc' = "c_done"
                 /\ li' = li
          ELSE /\ clearResult' = clearResult
               /\ pc' = "c_clear"
               /\ li' = li + 1
  /\ UNCHANGED <<env, config, opts, stdin, archives, cur, index, totalSize, wi,
                 bytesWritten, pv, hpos, backupResult, restoreResult, faults>>

\* The machine clear runs on: the home directory /Users/ann with documents
\* and the configuration file; /homes, a symbolic link to /Users; /tmp, with
\* a directory that cannot be written.
ClearHome == <<"Users", "ann">>
ClearConfigPath == <<"Users", "ann", "c">>

ClearFS ==
  (<<>> :> DirNode(493))
  @@ (<<"Users">> :> DirNode(493))
  @@ (ClearHome :> DirNode(493))
  @@ (ClearConfigPath :> ConfigFile)
  @@ (<<"Users", "ann", "docs">> :> DirNode(493))
  @@ (<<"Users", "ann", "docs", "f">> :> FileNode(420, <<1>>))
  @@ (<<"homes">> :> LinkNode([abs |-> TRUE, comps |-> <<"Users">>]))
  @@ (<<"tmp">> :> DirNode(493))
  @@ (<<"tmp", "x">> :> FileNode(420, <<2>>))
  @@ (<<"tmp", "ro">> :> DirNode(365))
  @@ (<<"tmp", "ro", "f">> :> FileNode(420, <<1>>))

ClearEnvs ==
  {[home |-> ClearHome, cwd |-> c, umask |-> 18] : c \in {ClearHome, <<>>}}

\* Paths a configuration of clear lists, and paths ClearSingleLocation is
\* called with.
ClearPaths ==
  {HomePath(<<"docs">>), AbsPath(<<"tmp", "ro">>), RelPath(<<"docs">>),
   AbsPath(<<"tmp">>), AbsPath(<<"gone">>), HomePath(<<>>)}

SinglePaths ==
  ClearPaths \cup
  {AbsPath(<<>>), AbsPath(ClearHome), AbsPath(<<"homes", "ann">>),
   AbsPath(<<"Users">>), AbsPath(<<"tmp", "x">>), AbsPath(<<"homes">>),
   HomePath(<<"docs", DotDot>>), AbsPath(<<"Users", "ann", "docs">>),
   AbsPath(<<"homes", "ann", "docs", "f">>), AbsPath(<<"gone", "for", "good">>)}

ClearConfigs ==
  SeqsUpTo({Location(p, {}) : p \in ClearPaths}, MaxLocs) \ {<<>>}

\* What the user types: the word, the word between blanks, with a carriage
\* return, in another case, with more around it, without the newline,
\* nothing, an empty line, the word on the second line.
Stdins ==
  {DeleteWord \o <<"\n">>,
   <<" ", "\t">> \o DeleteWord \o <<" ", "\r", "\n">>,
   <<"d", "e", "l", "e", "t", "e", "\n">>,
   <<"D", "e", "l", "e", "t", "e", "\n">>,
   DeleteWord \o <<"!", "\n">>,
   <<"D", "E", "L", " ", "E", "T", "E", "\n">>,
   DeleteWord,
   <<>>,
   <<"\n">>,
   <<"y", "\n">>,
   <<"\n">> \o DeleteWord \o <<"\n">>}

YesFlags == {YesFlag(FALSE, "false"), YesFlag(TRUE, "true"), YesFlag(TRUE, "false")}

\* ClearSingleLocation called on a path.
ClearOne ==
  /\ pc = "c_start"
  /\ \E path \in SinglePaths :
     \E x \in {ClearSingleLocation(fs, path, env)} :
       /\ fs' = x.fs
       /\ clearResult' = x.err
       /\ cur' = [path |-> normalizePath(path, env),
                  archive |-> generateFilename(path)]
       /\ hist' = [hist EXCEPT !.source = fs,
                               !.removed = IF x.touched # {}
                                             THEN {normalizePath(path, env)}
                                           ELSE {}]
  /\ pc' = "c_single"
  /\ UNCHANGED <<env, config, opts, stdin, archives, li, index, totalSize, wi,
                 bytesWritten, pv, hpos, backupResult, restoreResult, faults>>

InitClear ==
  /\ fs = ClearFS
  /\ env \in ClearEnvs
  /\ config \in ClearConfigs
  /\ \E cp \in {ClearConfigPath, <<"tmp", "c">>}, yes \in YesFlags :
       opts = ClearOptions(cp, yes)
  /\ stdin \in Stdins
  /\ clearResult = "running"
  /\ archives = NoArchives
  /\ pc = "c_start"
  /\ li = 1
  /\ cur = NoCur
  /\ index = <<>>
  /\ totalSize = 0
  /\ wi = 1
  /\ bytesWritten = 0
  /\ pv = NoItems
  /\ hpos = 1
  /\ backupResult = "running"
  /\ restoreResult = "running"
  /\ faults = 0
  /\ hist = NoHist

\* The clear command.
NextClear ==
  \/ ClearRun
  \/ ClearLocation

SpecClear == InitClear /\ [][NextClear]_vars

\* ClearSingleLocation, called on the same machines.
NextClearOne == ClearOne

SpecClearOne == InitClear /\ [][NextClearOne]_vars

\* The first line of what is typed, newline included, is the word DELETE
\* with nothing but white space before and after it.
TypedDelete(in) ==
  \E n \in 1..Len(in) :
    /\ in[n] = "\n"
    /\ \A j \in 1..(n - 1) : in[j] # "\n"
    /\ \E a \in 0..(n - Len(DeleteWord)) :
         /\ SubSeq(in, a + 1, a + Len(DeleteWord)) = DeleteWord
         /\ \A j \in (1..a) \cup ((a + Len(DeleteWord) + 1)..n) :
              in[j] \in WhiteSpace

\* --yes was given as true, or DELETE was typed.
ClearConfirmed ==
  \/ opts.yes.Changed /\ opts.yes.Value = "true"
  \/ TypedDelete(stdin)

\* C14: the clear command calls ClearLocations, and so deletes anything,
\* only if --yes was explicitly set to true or the trimmed confirmation
\* input is exactly DELETE; on any other input, or when reading fails, it
\* ends with no location deleted.
C14_DeletionConfirmed ==
  [][/\ (pc = "c_start" /\ ~ClearConfirmed) =>
          /\ pc' = "c_done"
          /\ clearResult' \in {"exit 0", "exit 1"}
          /\ fs' = fs
     /\ fs' # fs => pc = "c_clear"]_vars

\* Without --yes, DELETE was typed between blanks and the locations were
\* deleted.
C14_Witness ==
  /\ pc = "c_done"
  /\ clearResult = "ok"
  /\ ~opts.yes.Changed
  /\ hist.removed # {}
  /\ fs # hist.source

\* ------------------------------------------------------ ArchiveWriter.Close
\* What closing the layers gives: per layer "nil" or an error.
CloseOrder == <<"tar", "gzip", "file">>
CloseErrs == {"nil", "EIO", "ENOSPC"}
CloseResults == [CloseLayers -> CloseErrs]

\* The errors of the layers closed, in the order closed, nil ones left out.
RECURSIVE NonNil(_, _)
NonNil(results, order) ==
  IF order = <<>> THEN <<>>
  ELSE (IF results[Head(order)] = "nil" THEN <<>>
        ELSE <<[layer |-> Head(order), err |-> results[Head(order)]]>>)
       \o NonNil(results, Tail(order))

\* ArchiveWriter.Close, part_003 lines 344-350: errors.Join of the three
\* closes, evaluated in argument order.  The error returned is the sequence
\* of the errors joined (<<>> is nil).
Close(results) ==
  [closed |-> CloseOrder, err |-> NonNil(results, CloseOrder)]

\* ArchiveWriter.Close, data.go lines 195-207: the three closes in the same
\* order, output overwritten by each error.
CloseOutput(results) ==
  LET errs == NonNil(results, CloseOrder) IN
  [closed |-> CloseOrder,
   err |-> IF errs = <<>> THEN <<>> ELSE <<errs[Len(errs)]>>]

\* Close is called on an open writer whose layers close as results says.
CloseCall(ret, results, version) ==
  /\ pc = "w_open"
  /\ pc' = "w_closed"
  /\ hist' = [hist EXCEPT !.closes =
                Append(@, [li |-> li, name |-> cur.archive, version |-> version,
                           results |-> results, closed |-> ret.closed,
                           err |-> ret.err])]
  /\ UNCHANGED <<fs, env, config, opts, stdin, clearResult, archives, li, cur,
                 index, totalSize, wi, bytesWritten, pv, hpos, backupResult,
                 restoreResult, faults>>

CloseJoined ==
  \E results \in CloseResults : CloseCall(Close(results), results, "part_003")

CloseLast ==
  \E results \in CloseResults :
    CloseCall(CloseOutput(results), results, "data.go")

InitClose ==
  /\ \E l \in AuthoredPaths :
       /\ config = <<Location(l, {})>>
       /\ cur = [path |-> normalizePath(l, [home |-> <<"p">>, cwd |-> <<"p">>]),
                 archive |-> generateFilename(l)]
       /\ archives = newArchiveWriter(NoArchives, generateFilename(l))
  /\ fs = Skeleton
  /\ env = [home |-> <<"p">>, cwd |-> <<"p">>, umask |-> 18]
  /\ opts = DefaultOptions
  /\ stdin = <<>>
  /\ clearResult = "running"
  /\ pc = "w_open"
  /\ li = 1
  /\ index = <<>>
  /\ totalSize = 0
  /\ wi = 1
  /\ bytesWritten = 0
  /\ pv = NoItems
  /\ hpos = 1
  /\ backupResult = "running"
  /\ restoreResult = "running"
  /\ faults = 0
  /\ hist = NoHist

NextClose ==
  \/ CloseJoined
  \/ CloseLast

SpecClose == InitClose /\ [][NextClose]_vars

\* C15: ArchiveWriter.Close attempts to close the tar writer, then the gzip
\* writer, then the file, whatever the earlier closes return; the error it
\* returns is nil iff the three closes succeeded, and otherwise holds every
\* close error, not only the first or the last.
C15_CloseJoinsAll ==
  \A k \in 1..Len(hist.closes) :
    LET c == hist.closes[k] IN
    /\ c.closed = <<"tar", "gzip", "file">>
    /\ (c.err = <<>>) <=> (\A l \in CloseLayers : c.results[l] = "nil")
    /\ \A l \in CloseLayers :
         c.results[l] # "nil" =>
           \E i \in 1..Len(c.err) :
             c.err[i] = [layer |-> l, err |-> c.results[l]]

\* writeToArchive has just written the entry index[wi] without error.
EntryWritten == pc = "b_write" /\ wi <= Len(index) /\ wi' = wi + 1

\* C16: for an index entry that is a symbolic link on disk the header
\* written is of type symlink, carries the link's target and has no
\* payload; for a directory it is a directory header without payload; only
\* regular-file headers have payload, of the size the header declares.
C16_HeaderPerEntryType ==
  [][EntryWritten =>
       LET entry == Lstat(fs, index[wi]).node
           hdrs == archives'[cur.archive].hdrs
           h == hdrs[Len(hdrs)]
       IN /\ Len(hdrs) = Len(archives[cur.archive].hdrs) + 1
          /\ entry.type = "link" =>
               /\ h.Typeflag = "symlink"
               /\ h.Linkname = entry.target
               /\ h.Data = <<>>
          /\ entry.type = "dir" => h.Typeflag = "dir" /\ h.Data = <<>>
          /\ h.Typeflag # "reg" => h.Data = <<>>
          /\ h.Typeflag = "reg" => Len(h.Data) = h.Size]_vars

\* extractArchive goes on with the next header and nothing else changes.
HeaderSkipped ==
  /\ fs' = fs
  /\ hpos' = hpos + 1
  /\ pc' = pc
  /\ restoreResult' = restoreResult
  /\ hist'.touched = hist.touched

\* The header at hand is neither a directory, a regular file nor a link.
AtOtherHeader ==
  AtHeader /\ NextHeader.Typeflag \notin {"dir", "reg", "symlink"}

\* C17 as stated: a header whose type is none of directory, regular file
\* or symlink never causes an error or a filesystem change, and extraction
\* continues with the next header as if the header were absent.
C17_OtherTypeSkipped == [][AtOtherHeader => HeaderSkipped]_vars

\* C17, amended: ... provided the header's name passes the path check that
\* precedes the switch on the type.
C17_OtherTypeSkippedInside ==
  [][(AtOtherHeader /\ ~NameEscapes(NextHeader)) => HeaderSkipped]_vars

\* Restore succeeded on an archive whose first header is of another type,
\* with a name inside the parent directory, and whose second header was
\* extracted after it.
C17_Witness ==
  /\ pc = "r_done"
  /\ restoreResult = "nil"
  /\ Len(archives[cur.archive].hdrs) >= 2
  /\ archives[cur.archive].hdrs[1].Typeflag = "other"
  /\ archives[cur.archive].hdrs[1].Name = <<"t", "b">>
  /\ archives[cur.archive].hdrs[2].Typeflag = "reg"
  /\ Len(hist.extracted) >= 2
  /\ hist.touched # {}

\* tarReader.Next is called with no header left in the archive at hand.
AtStreamEnd == pc = "r_extract" /\ hpos > Len(archives[cur.archive].hdrs)

\* C18: reading headers ends successfully only on a clean end of stream;
\* any other error of reading a header or decompressing makes
\* extractArchive return an error at once: no further entry is processed,
\* what was extracted stays on disk, and Restore reports the failure of the
\* location as a whole.
C18_ReadErrorAborts ==
  /\ [][AtStreamEnd =>
          IF archives[cur.archive].damaged
            THEN /\ restoreResult' = "failed to read tar header"
                 /\ pc' = "r_done"
                 /\ fs' = fs
                 /\ hist'.extracted = hist.extracted
          ELSE /\ restoreResult' \in {"nil", "running"}
               /\ fs' = fs]_vars
  /\ [][pc = "r_done" => UNCHANGED <<fs, restoreResult, hist>>]_vars
  /\ [](restoreResult = "nil" =>
          \A k \in 1..Len(hist.lookups) :
            ~archives[hist.lookups[k].name].damaged)

\* Restore failed reading a header after it had extracted an entry, and
\* the entry is on disk.
C18_Witness ==
  /\ pc = "r_done"
  /\ restoreResult = "failed to read tar header"
  /\ hist.extracted # <<>>
  /\ \E p \in hist.touched : Exists(fs, p)

\* x <= y for fractions with positive denominators.
FractionLeq(x, y) == x[1] * y[2] <= y[1] * x[2]

\* The progress values writeToArchive passed to Set for location number k.
SetsOf(k) == SelectSeq(hist.sets, LAMBDA s : s.li = k)

\* C19: every progress value writeToArchive passes to Set lies in [0,1],
\* the values passed for one location never decrease, and the last value
\* passed for a location whose write succeeded is exactly 1.0, also when
\* the total size is 0 or the index is empty.
C19_ProgressWithinBounds ==
  /\ \A j \in 1..Len(hist.sets) :
       /\ hist.sets[j].progress[2] > 0
       /\ FractionLeq(Zero, hist.sets[j].progress)
       /\ FractionLeq(hist.sets[j].progress, One)
  /\ \A k \in 1..Len(config) :
       \A j \in 1..(Len(SetsOf(k)) - 1) :
         FractionLeq(SetsOf(k)[j].progress, SetsOf(k)[j + 1].progress)
  /\ \A c \in 1..Len(hist.closes) :
       LET sets == SetsOf(hist.closes[c].li) IN
       /\ sets # <<>>
       /\ sets[Len(sets)].progress = One

\* A location with a link to a file of two bytes was written: the bytes
\* counted went beyond the total size seen by scan, an intermediate value
\* below 1.0 was passed, and the last value is 1.0.
C19_Witness ==
  /\ pc = "b_done"
  /\ backupResult = "nil"
  /\ bytesWritten > totalSize
  /\ totalSize > 0
  /\ \E j \in 1..Len(hist.sets) :
       /\ ~FractionLeq(One, hist.sets[j].progress)
       /\ FractionLeq(Fraction(1, 3), hist.sets[j].progress)
  /\ hist.sets[Len(hist.sets)].progress = One

\* ClearSingleLocation has returned.
ClearedOne == pc = "c_single"

\* The directory a path names on the machine ClearSingleLocation was
\* called on, symbolic links resolved.
RealBefore(p) == Stat(hist.source, p).real

\* The errors ClearSingleLocation refuses with.
Refusals ==
  {"path does not exist", "refusing to delete protected directory",
   "path too short, refusing to delete"}

\* C20: ClearSingleLocation never removes the root, the user's home
\* directory, or a path whose cleaned absolute form is shorter than 10
\* characters; when it returns an error for one of these refusals or for a
\* path that does not exist, the filesystem is unchanged.
C20_ProtectedNeverRemoved ==
  ClearedOne =>
    /\ \A p \in hist.removed :
         /\ RealBefore(p) # <<>>
         /\ RealBefore(p) # RealBefore(env.home)
         /\ StringLen(p) >= 10
    /\ clearResult \in Refusals => fs = hist.source

\* The header's name is a relative path with no ".." component.
PlainName(h) == h.Name # <<>> /\ \A i \in 1..Len(h.Name) : h.Name[i] # DotDot

\* C21: extractArchive accepts every header whose name is a relative path
\* without ".." components, for every target location, a location whose
\* parent directory is the root "/" included: the traversal check never
\* rejects an archive backupLocation produced for the location.
C21_PlainNameAccepted ==
  [][(AtHeader /\ PlainName(NextHeader)) =>
       restoreResult' # "illegal file path in archive"]_vars

\* writeToArchive is in its loop with entries of the index still unwritten.
EntriesUnwritten == pc = "b_write" /\ wi <= Len(index)

\* C22: a location's item of the progress view becomes Done only after
\* every entry of the location's index has been written to the archive: no
\* Set call of writeToArchive marks it Done while entries are unwritten.
C22_DoneAfterLastEntry ==
  EntriesUnwritten => ~pv[cur.path].Done

\* The index holds no path twice, not the root, and each entry's parent
\* directory is the root or an earlier entry.
IndexParentFirst(root, idx) ==
  /\ \A i \in 1..Len(idx) : idx[i] # root
  /\ \A i, j \in 1..Len(idx) : i # j => idx[i] # idx[j]
  /\ \A i \in 1..Len(idx) :
       \/ Dir(idx[i]) = root
       \/ \E j \in 1..(i - 1) : idx[j] = Dir(idx[i])

\* No two headers share a name, and a directory's header comes before the
\* headers of the entries inside it.
HeadersParentFirst(hdrs) ==
  /\ \A i, j \in 1..Len(hdrs) : i # j => hdrs[i].Name # hdrs[j].Name
  /\ \A i, j \in 1..Len(hdrs) :
       (/\ hdrs[i].Typeflag = "dir"
        /\ hdrs[j].Name # hdrs[i].Name
        /\ IsUnder(hdrs[j].Name, hdrs[i].Name)) => i < j

\* C23: the index built by Location.scan never contains the location's
\* root, contains no path twice, and is parent-closed and parent-first;
\* hence in every archive a directory's header precedes the headers of the
\* entries inside the directory and no two headers share a name.
C23_IndexParentFirst ==
  /\ Scanned => IndexParentFirst(LastScan.root, index)
  /\ \A n \in DOMAIN archives : HeadersParentFirst(archives[n].hdrs)

\* A location with the directory a, the file a/b in it and the file b was
\* scanned and written: three entries, three headers.
C23_Witness ==
  /\ pc = "b_done"
  /\ backupResult = "nil"
  /\ Len(index) = 3
  /\ Scanned
  /\ \E i, j \in 1..Len(index) : i < j /\ index[i] = Dir(index[j])
  /\ Len(archives[cur.archive].hdrs) = 3
  /\ archives[cur.archive].hdrs[1].Typeflag = "dir"

\* The second run of Restore is over.
SecondRunDone == hist.runs = 1 /\ pc = "r_done"

\* C24: Restore is idempotent: for an archive of directory, regular-file
\* and symlink headers, a second extractArchive of the same archive into
\* the target the first run populated returns no error and leaves the tree
\* the first run left: paths, types, modes, contents and link targets.
\* (Stated for the runs whose first extraction left the archive file as it
\* was.)
C24_RestoreIdempotent ==
  (/\ SecondRunDone
   /\ hist.first[LocationArchivePath(1)] = FileNode(420, ArchiveBytes)
   /\ \A i \in 1..Len(archives[cur.archive].hdrs) :
        archives[cur.archive].hdrs[i].Typeflag \in {"dir", "reg", "symlink"})
  => /\ restoreResult = "nil"
     /\ fs = hist.first

====
